---- MODULE Spec2Model ----
(***************************************************************************)
(* A model of the Tailwind CSS runtime (src/src/index.ts): the variant     *)
(* test of a class name, the collapse of utility rules into a flat style   *)
(* object, the substitution of var() references, the removal of internal   *)
(* custom properties and the simplification of calc() products.            *)
(*                                                                         *)
(* Text is modelled character by character: a string is a sequence of      *)
(* one-character strings, so that every split, trim, slice and regular     *)
(* expression of the source is computed on the characters it reads.        *)
(***************************************************************************)
EXTENDS Integers, Sequences, FiniteSets, TLC

(***************************************************************************)
(* Bounds of the model                                                     *)
(***************************************************************************)
\* longest class name handed to testVariants
MaxLen == 5
\* longest state list handed to testVariants
MaxState == 2
\* most class names in one call of toObject
MaxClasses == 2

(***************************************************************************)
(* Strings                                                                 *)
(***************************************************************************)
Range(s) == {s[i] : i \in 1..Len(s)}

\* the strings of length at most n over the characters of A
StringsUpTo(A, n) == UNION {[1..k -> A] : k \in 0..n}

\* s.startsWith(p)
StartsWith(s, p) == Len(s) >= Len(p) /\ SubSeq(s, 1, Len(p)) = p

\* whether p occurs in s at index i
OccursAt(s, p, i) == i >= 1 /\ i + Len(p) - 1 <= Len(s) /\ SubSeq(s, i, i + Len(p) - 1) = p

\* s.slice(i - 1): the rest of s from index i on
From(s, i) == SubSeq(s, i, Len(s))

RECURSIVE Concat(_)
\* the concatenation of a sequence of strings
Concat(ss) == IF ss = <<>> THEN <<>> ELSE Head(ss) \o Concat(Tail(ss))

RECURSIVE Join(_, _)
\* ss.join(sep)
Join(ss, sep) ==
  IF ss = <<>> THEN <<>>
  ELSE IF Len(ss) = 1 THEN ss[1]
  ELSE ss[1] \o sep \o Join(Tail(ss), sep)

Whitespace == {" "}

RECURSIVE TrimStart(_)
TrimStart(s) == IF s # <<>> /\ Head(s) \in Whitespace THEN TrimStart(Tail(s)) ELSE s

RECURSIVE TrimEnd(_)
TrimEnd(s) ==
  IF s # <<>> /\ s[Len(s)] \in Whitespace THEN TrimEnd(SubSeq(s, 1, Len(s) - 1)) ELSE s

\* s.trim()
Trim(s) == TrimEnd(TrimStart(s))

\* the segments of s between the indices of `cuts' (each cut one character
\* wide), in order; the empty segments are kept
SplitAt(s, cuts) ==
  LET n == Cardinality(cuts)
      cutAt(k) == IF k = 0 THEN 0
                  ELSE IF k = n + 1 THEN Len(s) + 1
                  ELSE CHOOSE c \in cuts : Cardinality({d \in cuts : d < c}) = k - 1
  IN [k \in 1..(n + 1) |-> SubSeq(s, cutAt(k - 1) + 1, cutAt(k) - 1)]

\* s.split(c) for a one-character separator c
SplitChar(s, c) == SplitAt(s, {i \in 1..Len(s) : s[i] = c})

(***************************************************************************)
(* testVariants                                                            *)
(***************************************************************************)
\* the lookahead [^\[]*\] of the split expression, tried at index p: some "]"
\* follows with no "[" before it
LookaheadClosesBracket(s, p) ==
  \E j \in p..Len(s) : s[j] = "]" /\ \A k \in p..(j - 1) : s[k] # "["

\* the indices the expression /\:(?![^\[]*\])/g matches in s
VariantSplitPoints(s) ==
  {i \in 1..Len(s) : s[i] = ":" /\ ~LookaheadClosesBracket(s, i + 1)}

\* className.split(/\:(?![^\[]*\])/g)
SplitVariants(className) == SplitAt(className, VariantSplitPoints(className))

\* parts after parts.pop()
VariantParts(className) ==
  LET parts == SplitVariants(className) IN SubSeq(parts, 1, Len(parts) - 1)

testVariants(className, state, strict) ==
  LET parts == VariantParts(className) IN
  IF strict /\ Len(parts) # Len(state) THEN FALSE
  ELSE \A i \in 1..Len(parts) : parts[i] \in Range(state)

(***************************************************************************)
(* JavaScript values and the style object                                  *)
(***************************************************************************)
\* the value undefined; no string equals it (its one element is no character)
Undefined == <<"undefined">>
\* the value null
Null == <<"null">>

\* the keys of a style object, in property order
Keys(style) == [i \in 1..Len(style) |-> style[i].key]
KeySet(style) == {style[i].key : i \in 1..Len(style)}

\* style[key]: the value stored under key, undefined when there is none
GetKey(style, key) ==
  IF key \in KeySet(style)
  THEN style[CHOOSE i \in 1..Len(style) : style[i].key = key].value
  ELSE Undefined

\* style[key] = value: an existing key keeps its place, a new one is appended
SetKey(style, key, value) ==
  IF key \in KeySet(style)
  THEN [i \in 1..Len(style) |->
          IF style[i].key = key THEN [key |-> key, value |-> value] ELSE style[i]]
  ELSE Append(style, [key |-> key, value |-> value])

(***************************************************************************)
(* cleanSelector, toCamelCase, toKebabCase                                 *)
(***************************************************************************)
Lower == <<"a","b","c","d","e","f","g","h","i","j","k","l","m",
           "n","o","p","q","r","s","t","u","v","w","x","y","z">>
Upper == <<"A","B","C","D","E","F","G","H","I","J","K","L","M",
           "N","O","P","Q","R","S","T","U","V","W","X","Y","Z">>
LowerSet == Range(Lower)
UpperSet == Range(Upper)
toUpperCase(c) == IF c \in LowerSet THEN Upper[CHOOSE i \in 1..26 : Lower[i] = c] ELSE c
toLowerCase(c) == IF c \in UpperSet THEN Lower[CHOOSE i \in 1..26 : Upper[i] = c] ELSE c

RECURSIVE toCamelCase(_)
\* name.replace(/-([a-z])/g, (_, letter) => letter.toUpperCase())
toCamelCase(name) ==
  IF name = <<>> THEN <<>>
  ELSE IF Len(name) >= 2 /\ name[1] = "-" /\ name[2] \in LowerSet
       THEN <<toUpperCase(name[2])>> \o toCamelCase(From(name, 3))
       ELSE <<name[1]>> \o toCamelCase(Tail(name))

RECURSIVE toKebabCase(_)
\* name.replace(/[A-Z]/g, (letter) => `-${letter.toLowerCase()}`)
toKebabCase(name) ==
  IF name = <<>> THEN <<>>
  ELSE IF name[1] \in UpperSet
       THEN <<"-", toLowerCase(name[1])>> \o toKebabCase(Tail(name))
       ELSE <<name[1]>> \o toKebabCase(Tail(name))

\* selector.replace(/\\/g, '').slice(1)
cleanSelector(selector) == From(SelectSeq(selector, LAMBDA c : c # "\\"), 2)

(***************************************************************************)
(* Rules of the stylesheet and collapseRule                                *)
(*                                                                         *)
(* A rule is [type, selectorText, decls, cssRules]: type "style" is a      *)
(* CSSStyleRule (a declaration block and child rules), "media" a grouping  *)
(* rule without declarations, "nested" a CSSNestedDeclarations (a          *)
(* declaration block and no child rules).  decls is the declaration block  *)
(* as the browser parsed it, a sequence of [name, value].                  *)
(***************************************************************************)
\* 'cssRules' in r
isGroupRule(r) == r.type \in {"style", "media"}

\* r instanceof CSSStyleRule || r instanceof CSSNestedDeclarations
isStyleRule(r) == r.type \in {"style", "nested"}

\* rule.style.cssText: the browser's serialisation "name: value; name: value;"
cssText(decls) ==
  Join([i \in 1..Len(decls) |-> decls[i].name \o <<":", " ">> \o decls[i].value \o <<";">>],
       <<" ">>)

\* rule.style.cssText.split(';').filter(Boolean)
DeclarationLines(decls) == SelectSeq(SplitChar(cssText(decls), ";"), LAMBDA l : l # <<>>)

\* let [key, value] = part.split(':').map((s) => s.trim())
LineKey(part) == Trim(SplitChar(part, ":")[1])
LineValue(part) ==
  LET f == SplitChar(part, ":") IN IF Len(f) >= 2 THEN Trim(f[2]) ELSE Undefined

\* if (!key.startsWith('--')) key = toCamelCase(key)
StyleKey(key) == IF StartsWith(key, <<"-", "-">>) THEN key ELSE toCamelCase(key)

RECURSIVE WriteLines(_, _)
\* for (const part of lines) { ...; target[key] = value }
WriteLines(lines, target) ==
  IF lines = <<>> THEN target
  ELSE WriteLines(Tail(lines),
                  SetKey(target, StyleKey(LineKey(Head(lines))), LineValue(Head(lines))))

RECURSIVE collapseRule(_, _)
RECURSIVE CollapseRules(_, _)
\* for (const subRule of rule.cssRules) collapseRule(subRule, target)
CollapseRules(rules, target) ==
  IF rules = <<>> THEN target
  ELSE CollapseRules(Tail(rules), collapseRule(Head(rules), target))

collapseRule(rule, target) ==
  LET own(t) == IF isStyleRule(rule) THEN WriteLines(DeclarationLines(rule.decls), t) ELSE t
      sub(t) == IF isGroupRule(rule) /\ Len(rule.cssRules) > 0
                THEN CollapseRules(rule.cssRules, t) ELSE t
  IN own(sub(target))

(***************************************************************************)
(* The theme declaration, the registered properties and getValue           *)
(*                                                                         *)
(* themeDeclaration is undefined (NoTheme) or the declarations of the      *)
(* theme layer's first rule, a sequence of [name, value] with distinct     *)
(* names.  propertyRules are the CSSPropertyRule entries of                *)
(* tailwind.cssRules, in order: [name, inherits, initialValue].            *)
(***************************************************************************)
NoTheme == <<"no theme">>

\* themeDeclaration.getPropertyValue(name): '' when the property is not set
getPropertyValue(decl, name) ==
  IF \E i \in 1..Len(decl) : decl[i].name = name
  THEN decl[CHOOSE i \in 1..Len(decl) : decl[i].name = name].value
  ELSE <<>>

\* the first property rule of that name as <<rule>>, <<>> for undefined
findPropertyRule(rules, name) ==
  IF \E i \in 1..Len(rules) : rules[i].name = name
  THEN <<rules[CHOOSE i \in 1..Len(rules) :
                 rules[i].name = name /\ \A j \in 1..(i - 1) : rules[j].name # name]>>
  ELSE <<>>

\* getValue throws when the name does not start with '--'
getValueThrows(name) == ~StartsWith(name, <<"-", "-">>)

\* getValue(name), for a name it does not throw on
getValue(decl, rules, name) ==
  LET prop == findPropertyRule(rules, name) IN
  IF decl # NoTheme /\ getPropertyValue(decl, name) # <<>>
  THEN getPropertyValue(decl, name)
  ELSE IF prop # <<>> /\ ~prop[1].inherits /\ prop[1].name = name
       THEN prop[1].initialValue
       ELSE Undefined

(***************************************************************************)
(* The regular expressions of substitute                                   *)
(***************************************************************************)
VarOpen == <<"v", "a", "r", "(">>

\* the index of the first character of s at or after i that is ")" or ",";
\* Len(s) + 1 when there is none
RECURSIVE NameEnd(_, _)
NameEnd(s, i) ==
  IF i > Len(s) THEN Len(s) + 1
  ELSE IF s[i] \in {")", ","} THEN i
  ELSE NameEnd(s, i + 1)

\* /var\((--[^),]+),?\)/ tried at index i of s: [ok, name, len]
VarMatchAt(s, i) ==
  LET q == NameEnd(s, i + 6)
      none == [ok |-> FALSE, name |-> <<>>, len |-> 0]
  IN IF ~(OccursAt(s, VarOpen \o <<"-", "-">>, i) /\ q > i + 6 /\ q <= Len(s)) THEN none
     ELSE IF s[q] = ")"
          THEN [ok |-> TRUE, name |-> SubSeq(s, i + 4, q - 1), len |-> q - i + 1]
     ELSE IF q + 1 <= Len(s) /\ s[q + 1] = ")"
          THEN [ok |-> TRUE, name |-> SubSeq(s, i + 4, q - 1), len |-> q - i + 2]
     ELSE none

RECURSIVE MatchAllFrom(_, _)
MatchAllFrom(s, i) ==
  IF i > Len(s) THEN <<>>
  ELSE LET m == VarMatchAt(s, i) IN
       IF m.ok THEN <<m.name>> \o MatchAllFrom(s, i + m.len)
       ELSE MatchAllFrom(s, i + 1)

\* the variable names of value.matchAll(/var\((--[^),]+),?\)/g), in order
MatchAll(value) == MatchAllFrom(value, 1)

\* the length of the whitespace run of s that starts at index i
RECURSIVE SpaceRun(_, _)
SpaceRun(s, i) ==
  IF i <= Len(s) /\ s[i] \in Whitespace THEN 1 + SpaceRun(s, i + 1) ELSE 0

\* new RegExp(`var\\(${varName}\,?\\)(\\s*)`) tried at index i of s: the length
\* matched without the trailing whitespace, 0 when it does not match.  The
\* names of the model hold letters and "-" only, which the expression reads
\* literally.
RefMatchAt(s, varName, i) ==
  LET p == VarOpen \o varName IN
  IF OccursAt(s, p \o <<")">>, i) THEN Len(p) + 1
  ELSE IF OccursAt(s, p \o <<",", ")">>, i) THEN Len(p) + 2
  ELSE 0

\* value.replace(regex, resolved ? `${resolved}$1` : ''): the first match only
ReplaceFirst(value, varName, resolved) ==
  LET hits == {i \in 1..Len(value) : RefMatchAt(value, varName, i) > 0} IN
  IF hits = {} THEN value
  ELSE LET i == CHOOSE h \in hits : \A g \in hits : h <= g
           n == RefMatchAt(value, varName, i)
           w == SpaceRun(value, i + n)
           truthy == resolved # Null /\ resolved # <<>>
       IN SubSeq(value, 1, i - 1)
            \o (IF truthy THEN resolved \o SubSeq(value, i + n, i + n + w - 1) ELSE <<>>)
            \o From(value, i + n + w)

\* style[varName] ?? this.getValue(varName)
Resolve(style, decl, rules, varName) ==
  LET local == GetKey(style, varName) IN
  IF local # Undefined /\ local # Null THEN local ELSE getValue(decl, rules, varName)

(***************************************************************************)
(* simplify                                                                *)
(*                                                                         *)
(* A number is [nan, m, e], the value m / 10^e.  The product of two        *)
(* numbers is formed exactly; the numerals the model draws (0.25, 0.5, 2,  *)
(* 3, 4) are those on which the double product of the source and its       *)
(* shortest decimal form are exact too.                                    *)
(***************************************************************************)
DigitChars == <<"0", "1", "2", "3", "4", "5", "6", "7", "8", "9">>
DigitSet == Range(DigitChars)
DigitValue(c) == (CHOOSE i \in 1..10 : DigitChars[i] = c) - 1

\* the length of the run of characters of `set' that starts at index i
RECURSIVE RunLen(_, _, _)
RunLen(s, set, i) == IF i <= Len(s) /\ s[i] \in set THEN 1 + RunLen(s, set, i + 1) ELSE 0

RECURSIVE DigitsValue(_)
DigitsValue(ds) ==
  IF ds = <<>> THEN 0 ELSE 10 * DigitsValue(SubSeq(ds, 1, Len(ds) - 1)) + DigitValue(ds[Len(ds)])

RECURSIVE Pow10(_)
Pow10(n) == IF n = 0 THEN 1 ELSE 10 * Pow10(n - 1)

\* parseFloat of a run of digits and dots: the longest prefix digits[.digits]
\* that holds a digit, NaN when there is none
parseFloat(a) ==
  LET n1 == RunLen(a, DigitSet, 1)
      dot == n1 + 1 <= Len(a) /\ a[n1 + 1] = "."
      n2 == IF dot THEN RunLen(a, DigitSet, n1 + 2) ELSE 0
  IN IF n1 + n2 = 0 THEN [nan |-> TRUE, m |-> 0, e |-> 0]
     ELSE [nan |-> FALSE,
           m |-> DigitsValue(SubSeq(a, 1, n1)) * Pow10(n2)
                   + DigitsValue(SubSeq(a, n1 + 2, n1 + 1 + n2)),
           e |-> n2]

Times(x, y) ==
  IF x.nan \/ y.nan THEN [nan |-> TRUE, m |-> 0, e |-> 0]
  ELSE [nan |-> FALSE, m |-> x.m * y.m, e |-> x.e + y.e]

RECURSIVE NatToString(_)
NatToString(n) ==
  IF n < 10 THEN <<DigitChars[n + 1]>> ELSE NatToString(n \div 10) \o <<DigitChars[(n % 10) + 1]>>

RECURSIVE Reduce(_)
\* the same value with no trailing zero in its fraction
Reduce(x) == IF x.e > 0 /\ x.m % 10 = 0 THEN Reduce([x EXCEPT !.m = x.m \div 10, !.e = x.e - 1]) ELSE x

RECURSIVE PadLeft(_, _)
PadLeft(ds, n) == IF Len(ds) >= n THEN ds ELSE PadLeft(<<"0">> \o ds, n)

\* the number as a template literal prints it: `${x}`
NumberToString(x) ==
  IF x.nan THEN <<"N", "a", "N">>
  ELSE LET r == Reduce(x) IN
       IF r.e = 0 THEN NatToString(r.m)
       ELSE NatToString(r.m \div Pow10(r.e)) \o <<".">>
              \o PadLeft(NatToString(r.m % Pow10(r.e)), r.e)

CalcOpen == <<"c", "a", "l", "c", "(">>
TimesSign == <<" ", "*", " ">>

\* /calc\(([\d.]+)([a-z]+) \* ([\d.]+)\)/ tried at index i of s: [ok, a, unit, b, len]
CalcMatchAt(s, i) ==
  LET pa == i + 5
      na == RunLen(s, DigitSet \cup {"."}, pa)
      pu == pa + na
      nu == RunLen(s, LowerSet, pu)
      pt == pu + nu
      pb == pt + 3
      nb == RunLen(s, DigitSet \cup {"."}, pb)
      pe == pb + nb
  IN IF OccursAt(s, CalcOpen, i) /\ na > 0 /\ nu > 0 /\ OccursAt(s, TimesSign, pt)
          /\ nb > 0 /\ OccursAt(s, <<")">>, pe)
     THEN [ok |-> TRUE, a |-> SubSeq(s, pa, pu - 1), unit |-> SubSeq(s, pu, pt - 1),
           b |-> SubSeq(s, pb, pe - 1), len |-> pe - i + 1]
     ELSE [ok |-> FALSE, a |-> <<>>, unit |-> <<>>, b |-> <<>>, len |-> 0]

\* `${parseFloat(a) * parseFloat(b)}${unit}`
CalcProduct(a, unit, b) == NumberToString(Times(parseFloat(a), parseFloat(b))) \o unit

RECURSIVE SimplifyFrom(_, _)
SimplifyFrom(s, i) ==
  IF i > Len(s) THEN <<>>
  ELSE LET m == CalcMatchAt(s, i) IN
       IF m.ok THEN CalcProduct(m.a, m.unit, m.b) \o SimplifyFrom(s, i + m.len)
       ELSE <<s[i]>> \o SimplifyFrom(s, i + 1)

\* a variant of simplify whose expression lacks the g flag: the first match only
simplifyFirstMatch(cssValue) ==
  LET hits == {i \in 1..Len(cssValue) : CalcMatchAt(cssValue, i).ok} IN
  IF hits = {} THEN cssValue
  ELSE LET i == CHOOSE h \in hits : \A g \in hits : h <= g
           m == CalcMatchAt(cssValue, i)
       IN SubSeq(cssValue, 1, i - 1) \o CalcProduct(m.a, m.unit, m.b)
            \o From(cssValue, i + m.len)

\* cssValue.replace(regex, ...), every match replaced
simplify(cssValue) == SimplifyFrom(cssValue, 1)

(***************************************************************************)
(* The stylesheets, themes and calls of the model                          *)
(***************************************************************************)
\* the text of the names, values, selectors and class names that follow
Color == <<"c", "o", "l", "o", "r">>
Fill == <<"f", "i", "l", "l">>
MarginTop == <<"m", "a", "r", "g", "i", "n", "-", "t", "o", "p">>
Width == <<"w", "i", "d", "t", "h">>
Height == <<"h", "e", "i", "g", "h", "t">>
Top == <<"t", "o", "p">>
Scale == <<"s", "c", "a", "l", "e">>
Background == <<"b", "a", "c", "k", "g", "r", "o", "u", "n", "d">>
Content == <<"c", "o", "n", "t", "e", "n", "t">>
VarA == <<"-", "-", "a">>
VarB == <<"-", "-", "b">>
VarS == <<"-", "-", "s">>
VarT == <<"-", "-", "t">>
VarU == <<"-", "-", "u">>
Red == <<"r", "e", "d">>
Blue == <<"b", "l", "u", "e">>
Green == <<"g", "r", "e", "e", "n">>
One == <<"1">>
Two == <<"2">>
QuarterRem == <<"0", ".", "2", "5", "r", "e", "m">>
RefA == <<"v", "a", "r", "(", "-", "-", "a", ")">>
RefS == <<"v", "a", "r", "(", "-", "-", "s", ")">>
RefT == <<"v", "a", "r", "(", "-", "-", "t", ")">>
RefU == <<"v", "a", "r", "(", "-", "-", "u", ")">>
RefB == <<"v", "a", "r", "(", "-", "-", "b", ")">>
RefATwo == <<"v", "a", "r", "(", "-", "-", "a", ")", " ", "2">>
RefATwice == <<"v", "a", "r", "(", "-", "-", "a", ")", " ", "v", "a", "r", "(", "-", "-", "a", ",", ")">>
CalcSpacing == <<"c", "a", "l", "c", "(", "v", "a", "r", "(", "-", "-", "s", ")", " ", "*", " ", "4", ")">>
CalcProducts == <<"c", "a", "l", "c", "(", "2", "p", "x", " ", "*", " ", "3", ")", " ", "c", "a", "l", "c", "(", "1", ".", "5", "p", "x", " ", "*", " ", "0", ".", "5", ")">>
VarK == <<"-", "-", "k">>
RefK == <<"v", "a", "r", "(", "-", "-", "k", ")">>
CalcSum == <<"c", "a", "l", "c", "(", "2", "p", "x", " ", "+", " ", "3", ")">>
UrlValue == <<"u", "r", "l", "(", "x", ":", "y", ")">>
QuotedValue == <<"'", "a", ";", "b", "'">>
SelC == <<".", "c">>
SelD == <<".", "d">>
SelM == <<".", "m">>
SelH == <<".", "h", "\\", ":", "c">>
SelS == <<".", "s">>
SelU == <<".", "u">>
SelQ == <<".", "q">>
SelHover == <<"&", ":", "h", "o", "v", "e", "r">>
ClassC == <<"c">>
ClassD == <<"d">>
ClassM == <<"m">>
ClassH == <<"h", ":", "c">>
ClassS == <<"s">>
ClassU == <<"u">>
ClassQ == <<"q">>
ClassZ == <<"z">>
Hover == <<"h">>

Decl(name, value) == [name |-> name, value |-> value]
StyleRule(selectorText, decls, cssRules) ==
  [type |-> "style", selectorText |-> selectorText, decls |-> decls, cssRules |-> cssRules]
MediaRule(cssRules) ==
  [type |-> "media", selectorText |-> <<>>, decls |-> <<>>, cssRules |-> cssRules]
NestedDeclarations(decls) ==
  [type |-> "nested", selectorText |-> <<>>, decls |-> decls, cssRules |-> <<>>]

\* .c { --t: red; color: red; @media (...) { color: blue } }
RuleC == StyleRule(SelC, <<Decl(VarT, Red), Decl(Color, Red)>>,
                   <<MediaRule(<<NestedDeclarations(<<Decl(Color, Blue)>>)>>)>>)
\* .d { color: var(--t); fill: var(--u) }
RuleD == StyleRule(SelD, <<Decl(Color, RefT), Decl(Fill, RefU)>>, <<>>)
\* .m { margin-top: calc(var(--s) * 4); width: calc(2px * 3) calc(1.5px * 0.5);
\*      height: calc(2px + 3) }
RuleM == StyleRule(SelM, <<Decl(MarginTop, CalcSpacing), Decl(Width, CalcProducts),
                           Decl(Height, CalcSum)>>, <<>>)
\* .h\:c { &:hover { color: green; top: var(--a) } }
RuleH == StyleRule(SelH, <<>>,
                   <<StyleRule(SelHover, <<Decl(Color, Green), Decl(Top, RefA)>>, <<>>)>>)
\* .s { --a: var(--b); --b: var(--a) 2; scale: var(--a) var(--a,) }
RuleS == StyleRule(SelS, <<Decl(VarA, RefB), Decl(VarB, RefATwo), Decl(Scale, RefATwice)>>, <<>>)
\* .u { --u: var(--u); background: url(x:y); fill: var(--k) }
RuleU == StyleRule(SelU, <<Decl(VarU, RefU), Decl(Background, UrlValue), Decl(Fill, RefK)>>,
                   <<>>)
\* .q { content: 'a;b' }
RuleQ == StyleRule(SelQ, <<Decl(Content, QuotedValue)>>, <<>>)

\* the rule object a handle stands for: the state holds the layer as a
\* sequence of handles, as the CSSOM holds references to its rule objects
RuleObject(h) ==
  CASE h = "C" -> RuleC
    [] h = "D" -> RuleD
    [] h = "M" -> RuleM
    [] h = "H" -> RuleH
    [] h = "S" -> RuleS
    [] h = "U" -> RuleU
    [] h = "Q" -> RuleQ

\* the utilities layer, in the two orders the model draws
Utilities == <<"C", "D", "M", "H", "S", "U", "Q">>
Reverse(s) == [i \in 1..Len(s) |-> s[Len(s) + 1 - i]]
LayerMenu == {Utilities, Reverse(Utilities)}

\* the class names a caller asks for: those of the rules and one no rule has
ClassMenu == {ClassC, ClassD, ClassM, ClassH, ClassS, ClassU, ClassQ, ClassZ}

\* the theme declarations: none, plain values, values that refer to variables
Theme1 == <<Decl(VarT, Blue), Decl(VarS, QuarterRem)>>
Theme2 == <<Decl(VarT, RefS), Decl(VarS, QuarterRem), Decl(VarK, RefK)>>
ThemeMenu == {NoTheme, Theme1, Theme2}

\* the registered properties: none, or --a and --u internal and --b inherited
Registered ==
  <<[name |-> VarA, inherits |-> FALSE, initialValue |-> One],
    [name |-> VarB, inherits |-> TRUE, initialValue |-> Two],
    [name |-> VarU, inherits |-> FALSE, initialValue |-> Null]>>
PropertyMenu == {<<>>, Registered}

StateMenu == {<<>>, <<Hover>>}

\* the classNames argument: an array of class names, or one string of names
\* separated by spaces ("", "c", " c  d " and "h:c m s")
ArrayArg(list) == [array |-> TRUE, list |-> list, text |-> <<>>]
StringArg(text) == [array |-> FALSE, list |-> <<>>, text |-> text]
ClassLists == UNION {[1..k -> ClassMenu] : k \in 0..MaxClasses}
StringMenu ==
  {<<>>, ClassC, Join(<<<<>>, ClassC, <<>>, ClassD, <<>>>>, <<" ">>),
   Join(<<ClassH, ClassM, ClassS>>, <<" ">>)}
CallMenu == {ArrayArg(l) : l \in ClassLists} \cup {StringArg(t) : t \in StringMenu}

(***************************************************************************)
(* State                                                                   *)
(***************************************************************************)
VARIABLES
  utilities,         \* utilitiesLayer.cssRules, a sequence of rule handles
  themeDeclaration,  \* the theme declaration, NoTheme when there is none
  propertyRules,     \* the CSSPropertyRule entries of tailwind.cssRules
  classNames,        \* toObject's argument classNames
  state,             \* toObject's argument state
  strict,            \* toObject's argument strict
  pc,                \* where the call of toObject / toCSS stands
  active,            \* the class names that pass testVariants
  style,             \* the style object under construction
  entries,           \* Object.entries(style) as substitute took it
  ei,                \* the entry substitute is at
  pending,           \* the matches of matchAll not yet visited
  cur,               \* substitute's local `value'
  rewrites,          \* calls of value.replace made for the current entry
  substituted,       \* the style object as substitute left it
  err,               \* the error thrown, "none" when there is none
  css,               \* the string toCSS returns
  tv                 \* a call of testVariants: its arguments and result

vars == <<utilities, themeDeclaration, propertyRules, classNames, state, strict, pc,
          active, style, entries, ei, pending, cur, rewrites, substituted, err, css, tv>>

inputs == <<utilities, themeDeclaration, propertyRules, classNames, state, strict>>

NoCall == [pc |-> "idle", className |-> <<>>, state |-> <<>>, strict |-> FALSE,
           segments |-> <<>>, result |-> FALSE]

Init ==
  /\ utilities \in LayerMenu
  /\ themeDeclaration \in ThemeMenu
  /\ propertyRules \in PropertyMenu
  /\ classNames \in CallMenu
  /\ state \in StateMenu
  /\ strict \in BOOLEAN
  /\ pc = "start"
  /\ active = <<>>
  /\ style = <<>>
  /\ entries = <<>>
  /\ ei = 0
  /\ pending = <<>>
  /\ cur = <<>>
  /\ rewrites = 0
  /\ substituted = <<>>
  /\ err = "none"
  /\ css = <<>>
  /\ tv = NoCall

(***************************************************************************)
(* toObject                                                                *)
(***************************************************************************)
\* if (!Array.isArray(classNames)) classNames = classNames.split(' ');
\* classNames = classNames.map((c) => c.trim()).filter(Boolean)
NormalizeClassNames(arg) ==
  LET list == IF arg.array THEN arg.list ELSE SplitChar(arg.text, " ") IN
  SelectSeq([i \in 1..Len(list) |-> Trim(list[i])], LAMBDA c : c # <<>>)

\* classNames.filter((c) => testVariants(c, state, strict))
ActiveClasses(list, st, str) == SelectSeq(list, LAMBDA c : testVariants(c, st, str))

\* *allUtilityRules(): the style rules of the utilities layer, in its order
allUtilityRules(layer) ==
  SelectSeq([i \in 1..Len(layer) |-> RuleObject(layer[i])], LAMBDA r : r.type = "style")

\* a variant of RulesToCollapse that walks the active class names and takes the
\* rules of each, in the order of the class names
RulesInClassOrder(layer, act) ==
  Concat([i \in 1..Len(act) |->
            SelectSeq(allUtilityRules(layer),
                      LAMBDA r : cleanSelector(r.selectorText) = act[i])])

\* the rules toObject collapses, in the order it collapses them
RulesToCollapse(layer, act) ==
  SelectSeq(allUtilityRules(layer), LAMBDA r : cleanSelector(r.selectorText) \in Range(act))

\* the entry of toObject: the class names are normalised and filtered, and the
\* active rules are collapsed into a fresh style object
Collapse ==
  /\ pc = "start"
  /\ active' = ActiveClasses(NormalizeClassNames(classNames), state, strict)
  /\ style' = CollapseRules(RulesToCollapse(utilities, active'), <<>>)
  /\ entries' = style'
  /\ ei' = 1
  /\ pc' = "scan"
  /\ UNCHANGED <<inputs, pending, cur, rewrites, substituted, err, css, tv>>

\* substitute, first loop: the next entry is taken and its value scanned
SubstituteScan ==
  /\ pc = "scan"
  /\ ei <= Len(entries)
  /\ IF entries[ei].value = Undefined
     THEN \* value.matchAll on undefined
          /\ err' = "TypeError"
          /\ pc' = "threw"
          /\ UNCHANGED <<pending, cur>>
     ELSE /\ pending' = MatchAll(entries[ei].value)
          /\ cur' = entries[ei].value
          /\ pc' = "vars"
          /\ err' = err
  /\ rewrites' = 0
  /\ UNCHANGED <<inputs, active, style, entries, ei, substituted, css, tv>>

\* a variant of RemainingMatches that scans the rewritten value again
RescannedMatches(pend, value) == MatchAll(value)

\* the matches still to visit after one is visited: matchAll ran on the value
\* as the entry held it, so the rewritten value is not scanned again
RemainingMatches(pend, value) == Tail(pend)

\* substitute, first loop: one match of matchAll is resolved and rewritten
SubstituteVar ==
  /\ pc = "vars"
  /\ pending # <<>>
  /\ LET varName == Head(pending)
         local == GetKey(style, varName)
         asks == local = Undefined \/ local = Null
     IN IF asks /\ getValueThrows(varName)
        THEN /\ err' = "InvalidArgument"
             /\ pc' = "threw"
             /\ UNCHANGED <<pending, cur, rewrites>>
        ELSE LET resolved == Resolve(style, themeDeclaration, propertyRules, varName) IN
             /\ cur' = IF resolved # Undefined THEN ReplaceFirst(cur, varName, resolved) ELSE cur
             /\ pending' = RemainingMatches(pending, cur')
             /\ rewrites' = IF resolved # Undefined THEN rewrites + 1 ELSE rewrites
             /\ UNCHANGED <<pc, err>>
  /\ UNCHANGED <<inputs, active, style, entries, ei, substituted, css, tv>>

\* substitute, first loop: style[key] = value.trim()
SubstituteStore ==
  /\ pc = "vars"
  /\ pending = <<>>
  /\ style' = SetKey(style, entries[ei].key, Trim(cur))
  /\ ei' = ei + 1
  /\ pc' = "scan"
  /\ UNCHANGED <<inputs, active, entries, pending, cur, rewrites, substituted, err, css, tv>>

\* a variant of IsInternal that does not look at inherits
IsRegistered(rules, key) == findPropertyRule(rules, key) # <<>>

\* whether substitute's second loop deletes the key
IsInternal(rules, key) ==
  LET prop == findPropertyRule(rules, key) IN prop # <<>> /\ ~prop[1].inherits

\* substitute, second loop: the keys of internal properties are deleted
RemoveInternal ==
  /\ pc = "scan"
  /\ ei > Len(entries)
  /\ style' = SelectSeq(style, LAMBDA e : ~IsInternal(propertyRules, e.key))
  /\ substituted' = style'
  /\ pc' = "simplify"
  /\ UNCHANGED <<inputs, active, entries, ei, pending, cur, rewrites, err, css, tv>>

\* what toObject stores back for a value
SimplifiedValue(value) == simplify(value)

\* for (const [key, value] of Object.entries(style)) style[key] = simplify(value);
\* return style
Simplify ==
  /\ pc = "simplify"
  /\ style' = [i \in 1..Len(style) |->
                 [key |-> style[i].key, value |-> SimplifiedValue(style[i].value)]]
  /\ pc' = "returned"
  /\ UNCHANGED <<inputs, active, entries, ei, pending, cur, rewrites, substituted, err, css, tv>>

\* toCSS: the pairs of the object toObject returned, joined
toCSS ==
  /\ pc = "returned"
  /\ css' = Join([i \in 1..Len(style) |->
                    toKebabCase(style[i].key) \o <<":", " ">> \o style[i].value],
                 <<";", " ">>) \o <<";">>
  /\ pc' = "css"
  /\ UNCHANGED <<inputs, active, style, entries, ei, pending, cur, rewrites, substituted, err, tv>>

(***************************************************************************)
(* Calls of testVariants on their own                                      *)
(***************************************************************************)
\* the characters of the class names: two variant letters, the delimiter and
\* the brackets
ClassAlphabet == {"h", "f", ":", "[", "]"}

RECURSIVE Depth(_, _)
\* the bracket depth after the first i characters of s; -1 once a "]" closes
\* nothing
Depth(s, i) ==
  IF i = 0 THEN 0
  ELSE LET d == Depth(s, i - 1) IN
       IF d < 0 THEN -1
       ELSE IF s[i] = "[" THEN d + 1
       ELSE IF s[i] = "]" THEN d - 1
       ELSE d

\* every bracket of s has its partner
Balanced(s) == Depth(s, Len(s)) = 0

\* the class names of the calls: brackets come in pairs
VariantClassNames == {s \in StringsUpTo(ClassAlphabet, MaxLen) : Balanced(s)}

\* the state lists of the calls, duplicates included
VariantStates == StringsUpTo({<<"h">>, <<"f">>}, MaxState)

InitVariants ==
  /\ utilities = <<>>
  /\ themeDeclaration = NoTheme
  /\ propertyRules = <<>>
  /\ classNames = ArrayArg(<<>>)
  /\ state = <<>>
  /\ strict = FALSE
  /\ pc = "idle"
  /\ active = <<>>
  /\ style = <<>>
  /\ entries = <<>>
  /\ ei = 0
  /\ pending = <<>>
  /\ cur = <<>>
  /\ rewrites = 0
  /\ substituted = <<>>
  /\ err = "none"
  /\ css = <<>>
  /\ \E c \in VariantClassNames, st \in VariantStates, str \in BOOLEAN :
       tv = [pc |-> "call", className |-> c, state |-> st, strict |-> str,
             segments |-> <<>>, result |-> FALSE]

\* one call of testVariants: the segments of the split and the result
TestVariants ==
  /\ tv.pc = "call"
  /\ tv' = [tv EXCEPT !.pc = "done",
                      !.segments = SplitVariants(tv.className),
                      !.result = testVariants(tv.className, tv.state, tv.strict)]
  /\ UNCHANGED <<inputs, pc, active, style, entries, ei, pending, cur, rewrites,
                 substituted, err, css>>

NextVariants == TestVariants

SpecVariants == InitVariants /\ [][NextVariants]_vars

Next ==
  \/ Collapse
  \/ SubstituteScan
  \/ SubstituteVar
  \/ SubstituteStore
  \/ RemoveInternal
  \/ Simplify
  \/ toCSS

Spec == Init /\ [][Next]_vars

(***************************************************************************)
(* Properties of testVariants (under SpecVariants)                         *)
(***************************************************************************)
\* the variant tokens of the finished call: every segment but the last
CallVariants == SubSeq(tv.segments, 1, Len(tv.segments) - 1)

\* C1: testVariants(c, s, strict) is true exactly when every variant token of
\* c is a member of s and, when strict is set, the number of variant tokens
\* equals the number of distinct tokens of s.
C1_StrictCountsDistinctTokens ==
  tv.pc = "done" =>
    (tv.result <=>
       /\ \A i \in 1..Len(CallVariants) : CallVariants[i] \in Range(tv.state)
       /\ tv.strict => Len(CallVariants) = Cardinality(Range(tv.state)))

\* index i of s lies inside a bracket pair: a "[" before it and its partner
\* "]" after it
InsideBrackets(s, i) ==
  \E a \in 1..(i - 1), b \in (i + 1)..Len(s) :
    s[a] = "[" /\ s[b] = "]" /\ Balanced(SubSeq(s, a + 1, b - 1))

\* C9: a ":" of a class name is a split point exactly when it is not inside a
\* bracket pair, nested pairs included; the base is the last segment and the
\* segments joined with ":" give the class name back.
C9_SplitsOutsideBracketsOnly ==
  tv.pc = "done" =>
    /\ tv.segments =
         SplitAt(tv.className, {i \in 1..Len(tv.className) :
                                  tv.className[i] = ":" /\ ~InsideBrackets(tv.className, i)})
    /\ Join(tv.segments, <<":">>) = tv.className

(***************************************************************************)
(* Properties of toObject (under Spec)                                     *)
(***************************************************************************)
\* toObject has collapsed the active rules
Collapsed == pc \in {"scan", "vars", "simplify", "returned", "css", "threw"}
\* toObject has returned its style object
Returned == pc \in {"returned", "css"}

\* the requested class names that pass testVariants, as a set
ActiveSet ==
  {c \in Range(NormalizeClassNames(classNames)) : testVariants(c, state, strict)}

\* the places in the utilities layer of the active rules
ActiveRules ==
  {j \in 1..Len(utilities) : cleanSelector(RuleObject(utilities[j]).selectorText) \in ActiveSet}

\* what rule j declares, collapsed on its own
Declared(j) == collapseRule(RuleObject(utilities[j]), <<>>)

\* C3: a property that several active rules declare has the value of the one
\* that comes last in the utilities layer, whatever the order of classNames;
\* the collapsed style object depends on the set of active classes only.
C3_LaterRuleWins ==
  (pc = "scan" /\ ei = 1) =>
    /\ KeySet(entries) = UNION {KeySet(Declared(j)) : j \in ActiveRules}
    /\ \A k \in KeySet(entries) :
         LET declaring == {j \in ActiveRules : k \in KeySet(Declared(j))}
             last == CHOOSE j \in declaring : \A i \in declaring : i <= j
         IN GetKey(entries, k) = GetKey(Declared(last), k)

\* two active rules declare color, requested in the order opposite to the
\* layer's, and the later rule of the layer has given the value
C3_Witness ==
  /\ pc = "scan"
  /\ ei = 1
  /\ utilities = Utilities
  /\ active = <<ClassD, ClassC>>
  /\ GetKey(entries, Color) = RefT

\* the names of the non-inheriting registered properties
InternalNames ==
  {propertyRules[i].name : i \in {j \in 1..Len(propertyRules) : ~propertyRules[j].inherits}}

\* C4: toObject returns the collapsed keys less those a non-inheriting property
\* rule registers; such a key is deleted, every other key (a theme variable's
\* name too) stays, and no key is deleted while values are still substituted.
C4_InternalKeysDeleted ==
  /\ pc \in {"scan", "vars"} => Keys(style) = Keys(entries)
  /\ pc \in {"simplify", "returned", "css"} =>
       /\ KeySet(style) = KeySet(entries) \ InternalNames
       /\ \A i \in 1..Len(style) : style[i].value # Undefined

ScaleFromLocal == <<"v", "a", "r", "(", "-", "-", "a", ")", " ", "2", " ", "2", " ", "v", "a", "r", "(", "-", "-", "a", ",", ")">>

\* .c and .s were collapsed: the internal --a is gone after its value went into
\* scale, the inherited --b and the theme variable's name --t are kept
C4_Witness ==
  /\ pc = "returned"
  /\ themeDeclaration = Theme1
  /\ VarA \in KeySet(entries)
  /\ VarA \notin KeySet(style)
  /\ VarB \in KeySet(style)
  /\ VarT \in KeySet(style)
  /\ GetKey(style, Scale) = ScaleFromLocal

\* C2: in the object toObject returns no value holds a reference var(--n)
\* whose name is resolvable: a key of the collapsed style object, or a name
\* getValue finds.
C2_NoResolvableReferenceLeft ==
  Returned =>
    \A i \in 1..Len(style) :
      \A n \in Range(MatchAll(style[i].value)) :
        ~(n \in KeySet(entries) \/ getValue(themeDeclaration, propertyRules, n) # Undefined)

\* C5: toObject and toCSS never raise an error.
C5_NeverThrows == err = "none" /\ pc # "threw"

\* the number of places of s where "var(" begins
VarOccurrences(s) == Cardinality({i \in 1..Len(s) : OccursAt(s, VarOpen, i)})

RECURSIVE WorkLeft(_)
\* the steps substitute has before it for the entries from e on: a scan, a
\* store and at most one rewrite for each var( of the value
WorkLeft(e) ==
  IF e > Len(entries) THEN 0
  ELSE 2 + (IF entries[e].value = Undefined THEN 0 ELSE VarOccurrences(entries[e].value))
         + WorkLeft(e + 1)

\* the steps the call has before it, at most
Measure ==
  CASE pc = "start" -> 1000
    [] pc = "scan" -> 3 + WorkLeft(ei)
    [] pc = "vars" -> 3 + 1 + Len(pending) + WorkLeft(ei + 1)
    [] pc = "simplify" -> 2
    [] pc = "returned" -> 1
    [] OTHER -> 0

\* C6: the substitution pass terminates on every style object, self-references
\* and reference cycles included: every step of the call lowers a measure that
\* the var( occurrences of the collapsed values bound, and the rewrites of one
\* value, with the matches still to visit, never exceed the var( occurrences
\* of that value as the entry held it.
C6_SubstitutionTerminates ==
  /\ [](pc = "vars" => rewrites + Len(pending) <= VarOccurrences(entries[ei].value))
  /\ [][Measure' < Measure]_vars

\* the self-reference --u: var(--u) was rewritten once, by itself, and no
\* match is left to visit
C6_Witness ==
  /\ pc = "vars"
  /\ entries[ei].key = VarU
  /\ entries[ei].value = RefU
  /\ rewrites = 1
  /\ pending = <<>>
  /\ cur = RefU

\* a decimal numeral: digits, or digits "." digits
IsDecimal(n) ==
  /\ n # <<>>
  /\ \A i \in 1..Len(n) : n[i] \in DigitSet \cup {"."}
  /\ Cardinality({i \in 1..Len(n) : n[i] = "."}) <= 1
  /\ n[1] # "." /\ n[Len(n)] # "."

\* the places <<i, a, b, j>> where a product calc(<N><unit> * <M>) stands in
\* s: s[i..j] reads calc(<N><unit> * <M>) with N = s[i+5..a], unit = s[a+1..b]
\* and M = s[b+4..j-1]
CalcProductsIn(s) ==
  LET n == Len(s)
      closes(b) == {j \in (b + 5)..n : s[j] = ")" /\ IsDecimal(SubSeq(s, b + 4, j - 1))}
      units(a) == {b \in (a + 1)..n : /\ \A k \in (a + 1)..b : s[k] \in LowerSet
                                       /\ OccursAt(s, TimesSign, b + 1)}
      numbers(i) == {a \in (i + 5)..n : IsDecimal(SubSeq(s, i + 5, a))}
  IN UNION {UNION {UNION {{<<i, a, b, j>> : j \in closes(b)} : b \in units(a)}
                     : a \in numbers(i)}
              : i \in {h \in 1..n : OccursAt(s, CalcOpen, h)}}

\* the digits of a numeral as one integer, and the number of fraction digits
Unscaled(n) == DigitsValue(SelectSeq(n, LAMBDA c : c # "."))
FractionDigits(n) ==
  IF \E i \in 1..Len(n) : n[i] = "." THEN Len(n) - (CHOOSE i \in 1..Len(n) : n[i] = ".") ELSE 0

\* d is the decimal numeral of p / 10^f with no zero it could drop
IsNumeralOf(d, p, f) ==
  /\ IsDecimal(d)
  /\ Unscaled(d) * Pow10(f) = p * Pow10(FractionDigits(d))
  /\ FractionDigits(d) > 0 => d[Len(d)] # "0"
  /\ (Len(d) > 1 /\ d[1] = "0") => d[2] = "."

\* `out' is `sub' with its one product calc(<N><unit> * <M>), at q, replaced by
\* <N*M><unit>
ReplacesProduct(sub, out, q) ==
  LET N == SubSeq(sub, q[1] + 5, q[2])
      unit == SubSeq(sub, q[2] + 1, q[3])
      M == SubSeq(sub, q[3] + 4, q[4] - 1)
      tail == Len(sub) - q[4]
      d == SubSeq(out, q[1], Len(out) - tail - Len(unit))
  IN /\ Len(out) >= q[1] + Len(unit) + tail
     /\ SubSeq(out, 1, q[1] - 1) = SubSeq(sub, 1, q[1] - 1)
     /\ From(out, Len(out) - tail + 1) = From(sub, q[4] + 1)
     /\ SubSeq(out, Len(out) - tail - Len(unit) + 1, Len(out) - tail) = unit
     /\ IsNumeralOf(d, Unscaled(N) * Unscaled(M), FractionDigits(N) + FractionDigits(M))

SixAndThreeQuarters == <<"6", "p", "x", " ", "0", ".", "7", "5", "p", "x">>
OneRem == <<"1", "r", "e", "m">>
SpacingTimesFour == <<"c", "a", "l", "c", "(", "0", ".", "2", "5", "r", "e", "m", " ", "*", " ", "4", ")">>

\* C7: toObject simplifies every value after substitution: the keys stay, a
\* value with no product calc(<N><unit> * <M>) is returned as substituted, a
\* value with one product has it replaced by <N*M><unit>, and no product is
\* left in any value (calc(2px * 3) calc(1.5px * 0.5) gives 6px 0.75px).
C7_ProductsSimplified ==
  Returned =>
    /\ Keys(style) = Keys(substituted)
    /\ \A i \in 1..Len(style) :
         LET sub == substituted[i].value
             out == style[i].value
             found == CalcProductsIn(sub)
         IN /\ found = {} => out = sub
            /\ \A q \in found : Cardinality(found) = 1 => ReplacesProduct(sub, out, q)
            /\ CalcProductsIn(out) = {}
            /\ sub = CalcProducts => out = SixAndThreeQuarters

\* .m was collapsed under the theme with --s: 0.25rem: the declared
\* calc(var(--s) * 4) was substituted to calc(0.25rem * 4) and returned as 1rem
C7_Witness ==
  /\ pc = "returned"
  /\ GetKey(entries, toCamelCase(MarginTop)) = CalcSpacing
  /\ GetKey(substituted, toCamelCase(MarginTop)) = SpacingTimesFour
  /\ GetKey(style, toCamelCase(MarginTop)) = OneRem
  /\ GetKey(style, Width) = SixAndThreeQuarters
  /\ GetKey(style, Height) = CalcSum

RECURSIVE CollapseInDocumentOrder(_, _)
RECURSIVE CollapseAllInDocumentOrder(_, _)
CollapseAllInDocumentOrder(rules, target) ==
  IF rules = <<>> THEN target
  ELSE CollapseAllInDocumentOrder(Tail(rules), CollapseInDocumentOrder(Head(rules), target))

\* a rule tree written into target in document order: the rule's own
\* declaration block, then its nested rules
CollapseInDocumentOrder(rule, target) ==
  LET own == IF isStyleRule(rule) THEN WriteLines(DeclarationLines(rule.decls), target)
             ELSE target
  IN IF isGroupRule(rule) THEN CollapseAllInDocumentOrder(rule.cssRules, own) ELSE own

\* C8: collapseRule writes a rule's own declarations before those of its
\* nested rules, so a property both declare ends with the nested value.
C8_NestedDeclarationsWin ==
  (pc = "scan" /\ ei = 1) =>
    LET doc == CollapseAllInDocumentOrder(RulesToCollapse(utilities, active), <<>>) IN
    \A k \in KeySet(doc) : GetKey(entries, k) = GetKey(doc, k)

RECURSIVE DeclarationsOf(_)
RECURSIVE DeclarationsOfAll(_)
DeclarationsOfAll(rules) ==
  IF rules = <<>> THEN <<>> ELSE DeclarationsOf(Head(rules)) \o DeclarationsOfAll(Tail(rules))

\* every declaration of a rule tree: those of the rule and of its nested rules
DeclarationsOf(rule) ==
  (IF isStyleRule(rule) THEN rule.decls ELSE <<>>)
    \o (IF isGroupRule(rule) THEN DeclarationsOfAll(rule.cssRules) ELSE <<>>)

\* C10: for every declaration p: v of the collapsed rules the style object
\* holds, under the key of p, a defined string, and the whole value v when no
\* other declaration writes that key - also when v holds ":" or ";".
C10_WholeValueStored ==
  (pc = "scan" /\ ei = 1) =>
    LET ds == DeclarationsOfAll(RulesToCollapse(utilities, active)) IN
    /\ \A i \in 1..Len(entries) : entries[i].value # Undefined
    /\ \A i \in 1..Len(ds) :
         (\A j \in 1..Len(ds) : StyleKey(ds[j].name) = StyleKey(ds[i].name) => j = i)
           => GetKey(entries, StyleKey(ds[i].name)) = ds[i].value

====
